---- MODULE Spec2Model ----
(***************************************************************************)
(* Model of train.py: the Dataset class (indexing, augmentation,           *)
(* preprocessing) and the Model class (construction, device check, model   *)
(* dispatch, the 40-epoch train/validate/checkpoint loop).                 *)
(*                                                                         *)
(* Units: IoU scores are integers in tenths (3 stands for 0.3); learning   *)
(* rates are integers in units of 1e-6 (100 stands for 1e-4).              *)
(***************************************************************************)
EXTENDS Integers, Sequences, FiniteSets, TLC

VARIABLES
    \* ---- Model object and the run (Model.__init__, Model.train) ----
    pc,                   \* control point of the run
    err,                  \* kind of the exception that ended the run, or "none"
    device_count,         \* torch.cuda.device_count() of the host
    model_name,           \* self.model_name
    batch_size,           \* self.batch_size
    augmentation_params,  \* self.augmentation_params
    dirs,                 \* directories existing under save_dir
    disk,                 \* files on disk: set of [path, weights]
    train_ds, val_ds,     \* the two Dataset objects built by train()
    i,                    \* loop variable of "for i in range(0, 40)"
    max_score,            \* local max_score
    val_iou,              \* val_logs['iou_score'] of the last validation pass
    lr,                   \* optimizer.param_groups[0]['lr']
    weights,              \* version of the in-memory model = completed train passes
    nValid,               \* completed validation passes
    nDecide,              \* completed checkpoint decisions
    nSaves,               \* calls of torch.save
    lrSets,               \* assignments of the decayed learning rate
    bestSeen,             \* history: highest IoU any validation pass has reported
    bestAt,               \* history: earliest epoch that reported bestSeen
    nImprove,             \* history: validation passes that beat every earlier one
    readFailed,           \* history: some sample read of a pass has failed
    script,               \* simulated validation scores of the first epochs
    events,               \* checkpoint-write events seen during the simulated epochs
    \* ---- a Dataset object under random access (Dataset.__getitem__) ----
    ds,                   \* the Dataset object
    origin,               \* how ds was constructed: "train", "val" or "direct"
    corrupt,              \* the path that cannot be read/decoded, or NoPath
    last,                 \* the latest __getitem__ call: [idx, res]
    prev                  \* the call before it

runVars == <<pc, err, device_count, model_name, batch_size, augmentation_params, dirs, disk,
             train_ds, val_ds, i, max_score, val_iou, lr, weights, nValid,
             nDecide, nSaves, lrSets, bestSeen, bestAt, nImprove, readFailed,
             script, events>>
dsVars == <<ds, origin, corrupt, last, prev>>
vars == <<runVars, dsVars>>

----------------------------------------------------------------------------
\* Bounds of the model
MaxLen == 2        \* longest sample index
MaxScore == 2      \* highest IoU level (tenths) a validation pass reports
MaxBatch == 3      \* largest configured batch size
MaxDevices == 2    \* largest accelerator count

\* Program constants
NumEpochs == 40
DecayEpoch == 25
LrInitial == 100
LrDecayed == 10
InitialMaxScore == 0
DefaultBatchSize == 4

----------------------------------------------------------------------------
\* Python values

\* None, or a container (albumentations Compose / dict) given by its items.
PyNone == [isNone |-> TRUE, items |-> {}]
Container(xs) == [isNone |-> FALSE, items |-> xs]

\* bool(x): None is falsy; Compose and dict define __len__, so an empty one
\* is falsy too.
Truthy(x) == ~x.isNone /\ x.items # {}

NoPath == <<"none", 0>>

\* seq[idx] on a Python list: negative indices count from the end.
PyIndexNoWrap(seq, idx) ==
    IF idx >= 0 /\ idx < Len(seq)
    THEN [ok |-> TRUE, val |-> seq[idx + 1]]
    ELSE [ok |-> FALSE, val |-> NoPath]

PyIndex(seq, idx) ==
    LET n == Len(seq) IN
    IF idx >= 0 /\ idx < n THEN [ok |-> TRUE, val |-> seq[idx + 1]]
    ELSE IF idx < 0 /\ idx >= -n THEN [ok |-> TRUE, val |-> seq[n + idx + 1]]
    ELSE [ok |-> FALSE, val |-> NoPath]

----------------------------------------------------------------------------
\* Dataset

\* read_supervisely_project: the ordered (image path, annotation path) pairs.
ReadSuperviselyProject(n) ==
    [image_paths |-> [k \in 1..n |-> <<"img", k>>],
     ann_paths   |-> [k \in 1..n |-> <<"ann", k>>]]

\* Dataset.__init__
DatasetInit(n, aug, tp) ==
    LET idx == ReadSuperviselyProject(n) IN
    [image_paths |-> idx.image_paths,
     ann_paths |-> idx.ann_paths,
     augmentation_params |-> aug,
     transform_params |-> tp]

\* Dataset.__len__
DatasetLen(d) == Len(d.image_paths)

NoArray == [path |-> NoPath, flipped |-> FALSE, tensor |-> FALSE]
Failure(kind) == [kind |-> kind, image |-> NoArray, mask |-> NoArray]
NoResult == Failure("none")

\* The augmentation step of __getitem__: the joint horizontal flip, drawn with p=0.5.
Augment(d, flip) == Truthy(d.augmentation_params) /\ flip

\* The guard of the preprocessing step of __getitem__.
TransformsGuardStrict(d) == ~d.transform_params.isNone
TransformsGuard(d) == Truthy(d.transform_params)

\* Dataset.__getitem__(idx). flip is the augmentation's coin; bad is the path
\* whose file cannot be read or decoded (NoPath when all files are sound).
GetItem(d, idx, flip, bad) ==
    LET ip == PyIndex(d.image_paths, idx)
        ap == PyIndex(d.ann_paths, idx)
        fl == Augment(d, flip)
        tp == d.transform_params
    IN  IF ~ip.ok \/ ~ap.ok THEN Failure("IndexError")
        ELSE IF ip.val = bad \/ ap.val = bad THEN Failure("SampleDecodeError")
        ELSE IF TransformsGuard(d)
        THEN IF "mean" \notin tp.items \/ "std" \notin tp.items
             THEN Failure("KeyError")
             ELSE [kind |-> "ok",
                   image |-> [path |-> ip.val, flipped |-> fl, tensor |-> TRUE],
                   mask |-> [path |-> ap.val, flipped |-> fl, tensor |-> TRUE]]
        ELSE [kind |-> "ok",
              image |-> [path |-> ip.val, flipped |-> fl, tensor |-> FALSE],
              mask |-> [path |-> ap.val, flipped |-> fl, tensor |-> FALSE]]

\* smp.encoders.get_preprocessing_params: the encoder's statistics.
PreprocessingParams == Container({"input_space", "input_range", "mean", "std"})

\* The two datasets Model.train builds.
ValDatasetSameAug(n, aug) == DatasetInit(n, aug, PreprocessingParams)
TrainDataset(n, aug) == DatasetInit(n, aug, PreprocessingParams)
ValDataset(n, aug) == DatasetInit(n, PyNone, PreprocessingParams)

----------------------------------------------------------------------------
\* Model: construction

AugOptions == {PyNone, Container({}), Container({"HorizontalFlip"})}

\* The branches of _get_model.
RecognizedShort ==
    {"Unet", "Unet++", "DeepLabV3", "DeepLabV3+", "FPN", "Linknet"}
Recognized ==
    {"Unet", "Unet++", "DeepLabV3", "DeepLabV3+", "FPN", "Linknet", "PSPNet"}

\* Architecture names a run may be configured with.
ModelNames ==
    {"Unet", "Unet++", "DeepLabV3", "DeepLabV3+", "FPN", "Linknet", "PSPNet",
     "SegNet"}

\* The assertion of device_selection: TRUE when it passes.
DeviceCheckSkipped(b, n) == TRUE
DeviceSelectionOk(b, n) ==
    IF n > 1 /\ b # 0 THEN b % n = 0 ELSE TRUE

\* self.model_dir: <save_dir>/<model>_<encoder>_<weights>_<run_time>
ModelDir == <<"models", model_name>>

\* os.path.join(self.model_dir, 'best_weights.pth')
BestWeightsPath == <<ModelDir, "best_weights.pth">>

\* torch.save(obj, path): the file at path is created or overwritten.
TorchSave(files, path, w) ==
    {f \in files : f.path # path} \cup {[path |-> path, weights |-> w]}

NoDataset == DatasetInit(0, PyNone, PyNone)

\* Model.__init__: device_selection, then the run directory.
Construct ==
    /\ pc = "start"
    /\ IF DeviceSelectionOk(batch_size, device_count)
       THEN /\ dirs' = dirs \cup {ModelDir}
            /\ pc' = "constructed"
            /\ err' = err
       ELSE /\ pc' = "failed"
            /\ err' = "AssertionError"
            /\ dirs' = dirs
    /\ UNCHANGED <<device_count, model_name, batch_size, augmentation_params,
                   disk, train_ds, val_ds, i, max_score, val_iou, lr, weights,
                   nValid, nDecide, nSaves, lrSets, bestSeen, bestAt, nImprove,
                   readFailed, script, events, dsVars>>

\* train(): model = self._get_model()
GetModel ==
    /\ pc = "constructed"
    /\ IF model_name \in Recognized
       THEN pc' = "model" /\ err' = err
       ELSE pc' = "failed" /\ err' = "ValueError: Unknown model name:"
    /\ UNCHANGED <<device_count, model_name, batch_size, augmentation_params,
                   dirs, disk, train_ds, val_ds, i, max_score, val_iou, lr,
                   weights, nValid, nDecide, nSaves, lrSets, bestSeen, bestAt,
                   nImprove, readFailed, script, events, dsVars>>

\* train(): preprocessing_params, train_ds, val_ds
BuildDatasets ==
    /\ pc = "model"
    /\ train_ds' = TrainDataset(MaxLen, augmentation_params)
    /\ val_ds' = ValDataset(MaxLen, augmentation_params)
    /\ pc' = "datasets"
    /\ UNCHANGED <<err, device_count, model_name, batch_size,
                   augmentation_params, dirs, disk, i, max_score, val_iou, lr,
                   weights, nValid, nDecide, nSaves, lrSets, bestSeen, bestAt,
                   nImprove, readFailed, script, events, dsVars>>

\* train(): the loaders (a DataLoader rejects a batch size of 0), loss, metrics,
\* optimizer, the epoch runners, max_score = 0 and the first "for" step.
SetupTraining ==
    /\ pc = "datasets"
    /\ IF batch_size = 0
       THEN /\ pc' = "failed"
            /\ err' = "ValueError: batch_size should be a positive integer value"
            /\ UNCHANGED <<lr, max_score, i>>
       ELSE /\ lr' = LrInitial
            /\ max_score' = InitialMaxScore
            /\ i' = 0
            /\ pc' = "train"
            /\ err' = err
    /\ UNCHANGED <<device_count, model_name, batch_size, augmentation_params,
                   dirs, disk, train_ds, val_ds, val_iou, weights, nValid,
                   nDecide, nSaves, lrSets, bestSeen, bestAt, nImprove,
                   readFailed, script, events, dsVars>>

----------------------------------------------------------------------------
\* Model.train: the epoch loop

Range(f) == {f[k] : k \in DOMAIN f}
Max(a, b) == IF a >= b THEN a ELSE b

\* The files a pass over dataset d reads.
Files(d) == Range(d.image_paths) \cup Range(d.ann_paths)

\* One pass of a loader over dataset d: __getitem__ for every index of
\* range(len(d)). For each index, the results the call may have over the
\* augmentation's coin; bad is the unreadable file.
PassResults(d, bad) ==
    [k \in 0..(DatasetLen(d) - 1) |->
        {GetItem(d, k, flip, bad) : flip \in BOOLEAN}]

\* The sample reads of a pass that failed.
FailedReads(results) ==
    {r \in UNION Range(results) : r.kind # "ok"}

\* The exception a pass ends with, "none" when every sample was delivered:
\* the loader and the epoch runner catch nothing.
PassErrorSkipping(results) == "none"
PassError(results) ==
    IF FailedReads(results) # {}
    THEN (CHOOSE r \in FailedReads(results) : TRUE).kind
    ELSE "none"

\* The IoU a validation pass of epoch e may report.
IouChoices(e) ==
    IF e < Len(script) THEN {script[e + 1]} ELSE 0..MaxScore

\* train_logs = train_epoch.run(train_loader)
TrainPass ==
    /\ pc = "train"
    /\ \E bad \in {NoPath} \cup Files(train_ds) :
         LET results == PassResults(train_ds, bad)
             e == PassError(results)
         IN  /\ readFailed' = (readFailed \/ FailedReads(results) # {})
             /\ IF e # "none"
                THEN pc' = "failed" /\ err' = e /\ weights' = weights
                ELSE pc' = "valid" /\ err' = err /\ weights' = weights + 1
    /\ UNCHANGED <<device_count, model_name, batch_size, augmentation_params,
                   dirs, disk, train_ds, val_ds, i, max_score, val_iou, lr,
                   nValid, nDecide, nSaves, lrSets, bestSeen, bestAt, nImprove,
                   script, events, dsVars>>

\* val_logs = valid_epoch.run(val_loader)
ValidPass ==
    /\ pc = "valid"
    /\ \E bad \in {NoPath} \cup Files(val_ds), iou \in IouChoices(i) :
         LET results == PassResults(val_ds, bad)
             e == PassError(results)
         IN  /\ readFailed' = (readFailed \/ FailedReads(results) # {})
             /\ IF e # "none"
                THEN /\ pc' = "failed"
                     /\ err' = e
                     /\ UNCHANGED <<val_iou, nValid, bestSeen, bestAt, nImprove>>
                ELSE /\ pc' = "ckpt"
                     /\ err' = err
                     /\ val_iou' = iou
                     /\ nValid' = nValid + 1
                     /\ bestSeen' = Max(bestSeen, iou)
                     /\ bestAt' = IF iou > bestSeen THEN i ELSE bestAt
                     /\ nImprove' = IF iou > bestSeen THEN nImprove + 1
                                    ELSE nImprove
    /\ UNCHANGED <<device_count, model_name, batch_size, augmentation_params,
                   dirs, disk, train_ds, val_ds, i, max_score, lr, weights,
                   nDecide, nSaves, lrSets, script, events, dsVars>>

\* if max_score < val_logs['iou_score']
ShouldSaveAlways(best, iou) == TRUE
ShouldSaveOnTie(best, iou) == best <= iou
ShouldSave(best, iou) == best < iou

\* The checkpoint decision of an epoch.
Checkpoint ==
    /\ pc = "ckpt"
    /\ IF ShouldSave(max_score, val_iou)
       THEN /\ max_score' = val_iou
            /\ disk' = TorchSave(disk, BestWeightsPath, weights)
            /\ nSaves' = nSaves + 1
            /\ events' = IF i < Len(script)
                         THEN Append(events, [epoch |-> i,
                                              path |-> BestWeightsPath])
                         ELSE events
       ELSE UNCHANGED <<max_score, disk, nSaves, events>>
    /\ nDecide' = nDecide + 1
    /\ pc' = "decay"
    /\ UNCHANGED <<err, device_count, model_name, batch_size,
                   augmentation_params, dirs, train_ds, val_ds, i, val_iou, lr,
                   weights, nValid, lrSets, bestSeen, bestAt, nImprove,
                   readFailed, script, dsVars>>

\* if i == 25
IsDecayEpochFrom(e) == e >= DecayEpoch
IsDecayEpoch(e) == e = DecayEpoch

\* range(0, 40): whether another epoch follows epoch e.
HasNextEpochShort(e) == e + 1 < NumEpochs - 1
HasNextEpoch(e) == e + 1 < NumEpochs

\* The learning-rate step that ends an epoch, and the "for" step after it.
LrStep ==
    /\ pc = "decay"
    /\ IF IsDecayEpoch(i)
       THEN lr' = LrDecayed /\ lrSets' = lrSets + 1
       ELSE UNCHANGED <<lr, lrSets>>
    /\ IF HasNextEpoch(i)
       THEN i' = i + 1 /\ pc' = "train"
       ELSE i' = i /\ pc' = "done"
    /\ UNCHANGED <<err, device_count, model_name, batch_size,
                   augmentation_params, dirs, disk, train_ds, val_ds,
                   max_score, val_iou, weights, nValid, nDecide, nSaves,
                   bestSeen, bestAt, nImprove, readFailed, script, events,
                   dsVars>>

----------------------------------------------------------------------------
\* Dataset under random access

NoCall == [idx |-> 0, res |-> NoResult]

TransformOptions ==
    {PyNone, Container({}), Container({"mean"}), Container({"std"}),
     Container({"mean", "std"})}

\* ds[idx]
Access ==
    /\ \E idx \in (-(MaxLen + 1))..MaxLen, flip \in BOOLEAN :
         last' = [idx |-> idx, res |-> GetItem(ds, idx, flip, corrupt)]
    /\ prev' = last
    /\ UNCHANGED <<runVars, ds, origin, corrupt>>

----------------------------------------------------------------------------
\* Initial states

\* Before Model(...) is called, nothing of the run exists.
RunIdle ==
    /\ pc = "start"
    /\ err = "none"
    /\ dirs = {}
    /\ disk = {}
    /\ train_ds = NoDataset
    /\ val_ds = NoDataset
    /\ i = 0
    /\ max_score = 0
    /\ val_iou = 0
    /\ lr = 0
    /\ weights = 0
    /\ nValid = 0
    /\ nDecide = 0
    /\ nSaves = 0
    /\ lrSets = 0
    /\ bestSeen = 0
    /\ bestAt = -1
    /\ nImprove = 0
    /\ readFailed = FALSE
    /\ events = <<>>

DsIdle ==
    /\ ds = NoDataset
    /\ origin = "none"
    /\ corrupt = NoPath
    /\ last = NoCall
    /\ prev = NoCall

\* The run of the command line with its defaults (Unet, batch size 4, no
\* augmentation), on a host with one device.
Init ==
    /\ RunIdle
    /\ DsIdle
    /\ device_count = 1
    /\ model_name = "Unet"
    /\ batch_size = DefaultBatchSize
    /\ augmentation_params = PyNone
    /\ script = <<>>

Next ==
    \/ Construct
    \/ GetModel
    \/ BuildDatasets
    \/ SetupTraining
    \/ TrainPass
    \/ ValidPass
    \/ Checkpoint
    \/ LrStep

Spec == Init /\ [][Next]_vars

\* The single control thread keeps running until the run ends.
FairSpec == Spec /\ WF_vars(Next)

\* The validation scores of the first four epochs are simulated.
SimScores == <<1, 3, 2, 5>>

InitSim ==
    /\ RunIdle
    /\ DsIdle
    /\ device_count = 1
    /\ model_name = "Unet"
    /\ batch_size = DefaultBatchSize
    /\ augmentation_params = PyNone
    /\ script = SimScores

SpecSim == InitSim /\ [][Next]_vars

\* Any configuration on any host; the validation scores of the whole run
\* are simulated.
FullScript == [k \in 1..NumEpochs |-> IF k <= Len(SimScores) THEN SimScores[k] ELSE 0]

InitConfig ==
    /\ RunIdle
    /\ DsIdle
    /\ device_count \in 0..MaxDevices
    /\ model_name \in ModelNames
    /\ batch_size \in 0..MaxBatch
    /\ augmentation_params \in AugOptions
    /\ script = FullScript

SpecConfig == InitConfig /\ [][Next]_vars

\* A Dataset object: one of the two Model.train builds, or one constructed
\* directly; at most one of its files is unreadable.
InitDataset ==
    /\ RunIdle
    /\ device_count = 0
    /\ model_name = "Unet"
    /\ batch_size = DefaultBatchSize
    /\ augmentation_params \in AugOptions
    /\ script = <<>>
    /\ origin \in {"train", "val", "direct"}
    /\ \E n \in 0..MaxLen :
         \/ origin = "train" /\ ds = TrainDataset(n, augmentation_params)
         \/ origin = "val" /\ ds = ValDataset(n, augmentation_params)
         \/ /\ origin = "direct"
            /\ \E aug \in AugOptions, tp \in TransformOptions :
                 ds = DatasetInit(n, aug, tp)
    /\ corrupt \in {NoPath} \cup Files(ds)
    /\ last = NoCall
    /\ prev = NoCall

NextDataset == Access

SpecDataset == InitDataset /\ [][NextDataset]_vars

----------------------------------------------------------------------------
\* Claims

\* The architecture names the specification lists as recognized.
ListedNames ==
    {"Unet", "Unet++", "DeepLabV3", "DeepLabV3+", "FPN", "Linknet", "PSPNet"}

UnknownModel == "ValueError: Unknown model name:"

\* Nothing of train() past the model dispatch has happened.
NothingTrained ==
    /\ train_ds = NoDataset
    /\ val_ds = NoDataset
    /\ disk = {}
    /\ weights = 0
    /\ nValid = 0
    /\ nDecide = 0
    /\ lrSets = 0

EventEpochs == [k \in DOMAIN events |-> events[k].epoch]
SamePath == \A a, b \in DOMAIN events : events[a].path = events[b].path

\* C1 as stated: with validation IoU 0.1, 0.3, 0.2, 0.5 in the first four
\* epochs, exactly two checkpoint writes occur in them, after the first and
\* after the fourth epoch, both to one path, and the file then holds the model
\* as of the fourth epoch.
C1_TwoWrites ==
    (script = SimScores /\ nDecide = 4) =>
        /\ EventEpochs = <<0, 3>>
        /\ SamePath
        /\ Cardinality(disk) = 1
        /\ \A f \in disk : f.weights = 4

\* C1 as amended: with validation IoU 0.1, 0.3, 0.2, 0.5 in the first four
\* epochs, exactly three checkpoint writes occur in them, after the first, the
\* second and the fourth epoch (each score beats the best before it, 0.1
\* beating the initial 0), all to one path, and the single file then holds
\* the model as of the fourth epoch.
C1_ThreeWrites ==
    (script = SimScores /\ nDecide = 4) =>
        /\ EventEpochs = <<0, 1, 3>>
        /\ SamePath
        /\ nSaves = 3
        /\ Cardinality(disk) = 1
        /\ \A f \in disk : f.weights = 4

C1_Witness ==
    script = SimScores /\ nDecide = 4 /\ pc = "decay" /\ Len(events) = 3

\* C2: once an epoch's checkpoint decision is taken, the writes so far are
\* exactly the epochs whose IoU was strictly greater than every earlier IoU
\* and than 0; all writes went to <model_dir>/best_weights.pth, so at most one
\* checkpoint file exists, and it holds the model of the earliest epoch that
\* reached the best score; with no score above 0 there is no file.
C2_BestCheckpoint ==
    (lr # 0 /\ nDecide = nValid) =>
        /\ max_score = bestSeen
        /\ nSaves = nImprove
        /\ Cardinality(disk) <= 1
        /\ \A f \in disk :
             f.path = <<<<"models", model_name>>, "best_weights.pth">>
        /\ (bestSeen = 0) = (disk = {})
        /\ \A f \in disk : f.weights = bestAt + 1

\* A later epoch has tied the best score and nothing was written for it.
C2_Witness ==
    /\ pc = "decay"
    /\ val_iou = bestSeen
    /\ bestSeen > 0
    /\ bestAt < i
    /\ nSaves = 1

\* C3: from the creation of the optimizer on, the learning rate is 1e-4 until
\* the end of epoch 25 and 1e-5 from then on; the decayed value is assigned
\* exactly once, after the train pass, validation pass and checkpoint decision
\* of epoch 25, so epochs 0..25 train at 1e-4 and epochs 26..39 at 1e-5.
C3_DecayOnce ==
    (lr # 0) =>
        LET decayed == (i > 25) IN
        /\ lrSets = (IF decayed THEN 1 ELSE 0)
        /\ lr = (IF decayed THEN 10 ELSE 100)
        /\ (decayed => weights >= 26 /\ nValid >= 26 /\ nDecide >= 26)
        /\ (pc = "done" => decayed)

C3_Witness == pc = "train" /\ i = 26 /\ lr = 10 /\ lrSets = 1

\* The position of the run within epoch i, in completed train passes,
\* validation passes and checkpoint decisions.
C4_Order ==
    /\ (pc = "train" => weights = i /\ nValid = i /\ nDecide = i)
    /\ (pc = "valid" => weights = i + 1 /\ nValid = i /\ nDecide = i)
    /\ (pc = "ckpt" => weights = i + 1 /\ nValid = i + 1 /\ nDecide = i)
    /\ (pc = "decay" => weights = i + 1 /\ nValid = i + 1 /\ nDecide = i + 1)
    /\ (pc = "done" => weights = 40 /\ nValid = 40 /\ nDecide = 40 /\ i = 39)

\* C4: within an epoch the train pass completes before the validation pass,
\* the checkpoint decision follows the validation pass, and the next epoch
\* starts only after it; a run in which no error occurs ends, whatever the
\* validation scores, after exactly 40 epochs.
C4_RunsToCompletion ==
    /\ []C4_Order
    /\ ([](pc # "failed")) => <>(pc = "done")

C4_Witness == pc = "done" /\ weights = 40 /\ bestSeen = 0

\* C5 as stated: __getitem__(idx) fails with an index error for every idx
\* outside [0, n), every negative idx included, and a sample it returns is the
\* pair of image_paths[idx] and ann_paths[idx].
C5_OutsideFails ==
    (last.res.kind # "none") =>
        LET n == DatasetLen(ds) IN
        /\ (last.idx < 0 \/ last.idx >= n) => last.res.kind = "IndexError"
        /\ (last.res.kind = "ok") =>
             /\ last.res.image.path = <<"img", last.idx + 1>>
             /\ last.res.mask.path = <<"ann", last.idx + 1>>

\* C5 as amended: __getitem__(idx) fails with an index error exactly when idx
\* is outside [-n, n); a negative idx in [-n, 0) addresses sample n + idx; a
\* sample the call returns is the pair of image_paths[k] and ann_paths[k],
\* with k = idx for idx >= 0 and k = n + idx for idx < 0.
C5_PythonIndexing ==
    (last.res.kind # "none") =>
        LET n == DatasetLen(ds)
            k == IF last.idx >= 0 THEN last.idx ELSE n + last.idx
        IN  /\ (last.res.kind = "IndexError") = (last.idx < -n \/ last.idx >= n)
            /\ (last.res.kind = "ok") =>
                 /\ last.res.image.path = <<"img", k + 1>>
                 /\ last.res.mask.path = <<"ann", k + 1>>

C5_Witness ==
    /\ last.idx = -1
    /\ last.res.kind = "ok"
    /\ last.res.image.path = <<"img", DatasetLen(ds)>>

\* The normalization statistics of ds are unset.
StatsUnset ==
    \/ ~Truthy(ds.transform_params)
    \/ "mean" \notin ds.transform_params.items
    \/ "std" \notin ds.transform_params.items

\* C6 as stated: with unset normalization statistics __getitem__ fails and
\* never returns a pair.
C6_UnsetFails ==
    (last.res.kind # "none" /\ StatsUnset) => last.res.kind # "ok"

\* C6 as amended: with transform_params None or empty, __getitem__ skips the
\* whole preprocessing step and returns the raw, un-normalized pair (it does
\* not fail for the missing statistics); with a non-empty transform_params
\* that lacks mean or std it fails; a returned pair is normalized exactly
\* when transform_params is non-empty, and then mean and std are present.
C6_UnsetSkips ==
    (last.res.kind # "none") =>
        /\ (~Truthy(ds.transform_params)) =>
             /\ last.res.kind \in {"ok", "IndexError", "SampleDecodeError"}
             /\ ~last.res.image.tensor
             /\ ~last.res.mask.tensor
        /\ (Truthy(ds.transform_params) /\ StatsUnset) => last.res.kind # "ok"
        /\ (last.res.kind = "ok") =>
             /\ last.res.image.tensor = Truthy(ds.transform_params)
             /\ last.res.image.tensor => ~StatsUnset

C6_Witness ==
    /\ ds.transform_params = Container({})
    /\ last.res.kind = "ok"
    /\ ~last.res.image.tensor

\* C7: the validation dataset Model.train builds applies no augmentation,
\* whatever augmentation_params the Model has, and two calls of get(i) on it
\* return identical results.
C7_ValidationDeterministic ==
    (origin = "val" /\ last.res.kind # "none") =>
        /\ ~last.res.image.flipped
        /\ ~last.res.mask.flipped
        /\ (prev.res.kind # "none" /\ prev.idx = last.idx) => prev.res = last.res

C7_Witness ==
    /\ origin = "val"
    /\ Truthy(augmentation_params)
    /\ last.res.kind = "ok"
    /\ prev.res.kind = "ok"
    /\ prev.idx = last.idx

\* C8: with more than one device and a batch size the device count does not
\* divide, construction fails (the assertion) before the run directory is
\* created and before any dataset, epoch or checkpoint write; with at most
\* one device the check rejects no batch size.
C8_DivisibilityAtStartup ==
    /\ (pc # "start" /\ device_count > 1 /\ batch_size % device_count # 0) =>
         /\ pc = "failed"
         /\ err = "AssertionError"
         /\ dirs = {}
         /\ NothingTrained
    /\ (err = "AssertionError") => device_count > 1
    /\ (device_count <= 1 /\ pc # "start") => dirs # {}

C8_Witness ==
    /\ pc = "failed"
    /\ err = "AssertionError"
    /\ device_count = 2
    /\ batch_size = 3

\* C9 as stated: the failure for an unrecognized architecture name occurs
\* before the run directory is created, before any dataset and any epoch.
C9_FailsBeforeDirectory ==
    (err = UnknownModel) => (dirs = {} /\ NothingTrained)

\* C9 as amended: a run configured with a name outside the recognized set
\* fails when train() starts: after the constructor has created the run
\* directory, but before any dataset is built and before any epoch runs; it
\* is not retried (no step follows a failure); every name inside the set is
\* accepted.
C9_FailsAtTrainStart ==
    /\ [](/\ (model_name \in ListedNames) => err # UnknownModel
          /\ (model_name \notin ListedNames) =>
               /\ pc \in {"start", "constructed", "failed"}
               /\ NothingTrained
               /\ (pc = "failed") => err \in {UnknownModel, "AssertionError"}
          /\ (err = UnknownModel) =>
               /\ pc = "failed"
               /\ model_name \notin ListedNames
               /\ dirs = {<<"models", model_name>>}
               /\ NothingTrained)
    /\ [][pc # "failed"]_vars

C9_Witness == pc = "failed" /\ err = UnknownModel /\ dirs # {}

\* C10: a sample that fails to read or decode during the train or validation
\* pass ends the run with that error: the pass does not go on without it, and
\* after the failure no step follows, so no pass, checkpoint write or
\* learning-rate change; the failing step leaves the checkpoint file, the
\* learning rate and the model as they were.
C10_SampleFailureIsFatal ==
    /\ [](readFailed => (pc = "failed" /\ err = "SampleDecodeError"))
    /\ [][/\ pc # "failed"
          /\ (pc' = "failed") =>
               /\ disk' = disk /\ lr' = lr /\ weights' = weights
               /\ nValid' = nValid /\ nSaves' = nSaves /\ lrSets' = lrSets]_vars

\* A validation pass failed in an epoch after the one that wrote a checkpoint.
C10_Witness ==
    /\ readFailed
    /\ pc = "failed"
    /\ disk # {}
    /\ weights = nValid + 1
    /\ bestAt < i

====
